---- MODULE Spec2Model ----
(***************************************************************************)
(* Tight-binding model engine of pythtb.py (class tb_model):               *)
(*   _gen_ham        Bloch sum of the Wigner-Seitz hopping table            *)
(*   _sol_ham        Hermitian check, eigen-solution, _nicefy_eig           *)
(*   k_uniform_mesh  uniform k-mesh                                        *)
(*   k_path          interpolated k-path                                   *)
(*                                                                         *)
(* Number representation.  Floating point numbers are modelled by exact    *)
(* numbers:                                                                *)
(*   - a complex number is a pair <<re, im>> of integers; Hamiltonian      *)
(*     entries are held in units of 1/DegScale so that the division by a   *)
(*     degeneracy is exact;                                                *)
(*   - orbital positions are integer vectors in units of 1/2, k-vectors    *)
(*     of _gen_ham are integer vectors in units of 1/4, so k.rv is an      *)
(*     integer number of eighths; the inputs are restricted to those whose *)
(*     phases are fourth roots of unity (k.rv an even number of eighths);  *)
(*   - k-path and k-mesh coordinates and distances are rationals <<n, d>>. *)
(* numpy arrays are functions on 0..n-1 (the source's indices), Python     *)
(* lists that are only iterated are sequences.                             *)
(***************************************************************************)
EXTENDS Integers, Sequences, FiniteSets, TLC

\* the model's fields; op, arg, ret: the call of the sequential caller and its
\* result; np_precision: numpy's process-wide print precision; thr: the
\* concurrent callers
VARIABLES lat, orb, norb, deg_ws, Rvec_list, Hmat_list, op, arg, ret,
          np_precision, thr, given

vars == <<lat, orb, norb, deg_ws, Rvec_list, Hmat_list, op, arg, ret,
          np_precision, thr, given>>

modelVars == <<lat, orb, norb, deg_ws, Rvec_list, Hmat_list>>

\* np_precision and thr belong to the process; given is the hopping table as
\* it was when the constructor received it
envVars == <<np_precision, thr, given>>

(***************************************************************************)
(* Bounds of the model                                                     *)
(***************************************************************************)
MaxDeg == 2

MaxEntries == 3

\* number of concurrent callers
MaxCallers == 2

(***************************************************************************)
(* Program constants                                                       *)
(***************************************************************************)
dim_k == 3

dim_r == 3

\* np.set_printoptions(precision=5), line 312
ReportPrecision == 5

\* the precision np.get_printoptions() reports in a fresh process
DefaultPrecision == 8

Callers == 1..MaxCallers

\* a concurrent caller that has not made its call
ReadyCaller == [pc |-> "ready", call |-> <<>>, original |-> 0, ret |-> <<>>]

(***************************************************************************)
(* Small helpers                                                           *)
(***************************************************************************)
Min2(a, b) == IF a <= b THEN a ELSE b

Abs(x) == IF x < 0 THEN -x ELSE x

RECURSIVE Gcd(_, _)
Gcd(a, b) == IF b = 0 THEN Abs(a) ELSE Gcd(b, a % b)

Lcm(a, b) == (a * b) \div Gcd(a, b)

RECURSIVE LcmUpTo(_)
LcmUpTo(n) == IF n <= 1 THEN 1 ELSE Lcm(n, LcmUpTo(n - 1))

\* every complex matrix entry is held as an integer multiple of 1/DegScale
DegScale == LcmUpTo(MaxDeg)

Dims == 1..dim_k

Dot(u, v) == u[1] * v[1] + u[2] * v[2] + u[3] * v[3]

VAdd(u, v) == [d \in Dims |-> u[d] + v[d]]

VNeg(u) == [d \in Dims |-> -u[d]]

(***************************************************************************)
(* Complex numbers <<re, im>>                                              *)
(***************************************************************************)
CZero == <<0, 0>>

CAdd(a, b) == <<a[1] + b[1], a[2] + b[2]>>

CSub(a, b) == <<a[1] - b[1], a[2] - b[2]>>

CMul(a, b) == <<a[1] * b[1] - a[2] * b[2], a[1] * b[2] + a[2] * b[1]>>

CConj(a) == <<a[1], -a[2]>>

\* phase/deg of line 80: the phase is in units of 1/DegScale, deg divides DegScale
CDivInt(a, n) == <<a[1] \div n, a[2] \div n>>

\* np.exp((2.0j)*np.pi*x) for x = e/8, e even, in units of 1/DegScale
CExpTurn(e) ==
    CASE (e \div 2) % 4 = 0 -> <<DegScale, 0>>
      [] (e \div 2) % 4 = 1 -> <<0, DegScale>>
      [] (e \div 2) % 4 = 2 -> <<-DegScale, 0>>
      [] (e \div 2) % 4 = 3 -> <<0, -DegScale>>

(***************************************************************************)
(* Python indexing of an axis of length n: a negative index counts from    *)
(* the end, an index outside -n..n-1 raises IndexError                     *)
(***************************************************************************)
PyIndexOk(i, n) == i >= -n /\ i <= n - 1

PyIndex(i, n) == IF i < 0 THEN i + n ELSE i

(***************************************************************************)
(* tb_model._gen_ham                                                       *)
(***************************************************************************)
\* zip(self.deg_ws, self.Rvec_list, self.Hmat_list) stops at the shortest list
ZipLen(degs, rvecs, hmats) == Min2(Len(degs), Min2(Len(rvecs), Len(hmats)))

\* mutant: the position of orbital j is left out of rv
MutHopVectorNoOrbJ(orbs, n, i, j, vecR) ==
    [d \in Dims |-> -orbs[PyIndex(i, n)][d] + 2 * vecR[d]]

\* mutant: rv is the lattice vector alone
MutHopVectorLatticeOnly(orbs, n, i, j, vecR) == [d \in Dims |-> 2 * vecR[d]]

\* rv = -self._orb[i,:]+self._orb[j,:]+vecR, in units of 1/2
HopVector(orbs, n, i, j, vecR) ==
    [d \in Dims |-> -orbs[PyIndex(i, n)][d] + orbs[PyIndex(j, n)][d] + 2 * vecR[d]]

\* mutant: phase=np.exp((-2.0j)*np.pi*kpnt.dot(rv))
MutHopPhaseConj(kpnt, rv) == CExpTurn(-Dot(kpnt, rv))

\* phase=np.exp((2.0j)*np.pi*kpnt.dot(rv)), kpnt in units of 1/4
HopPhase(kpnt, rv) == CExpTurn(Dot(kpnt, rv))

\* amp *= phase/deg
HopTerm(amp, phase, deg) == CMul(amp, CDivInt(phase, deg))

\* mutant: ham[i,j] = amp
MutAccumulateAssign(ham, n, i, j, term) ==
    [ham EXCEPT ![PyIndex(i, n)][PyIndex(j, n)] = term]

\* ham[i,j] += amp
Accumulate(ham, n, i, j, term) ==
    [ham EXCEPT ![PyIndex(i, n)][PyIndex(j, n)] = CAdd(@, term)]

\* the body of the inner loop, lines 75-81, for one matrix element
HamElem(ham, orbs, n, kpnt, deg, vecR, ham12) ==
    LET i == ham12[1]
        j == ham12[2]
        amp == ham12[3]
        rv == HopVector(orbs, n, i, j, vecR)
        phase == HopPhase(kpnt, rv)
    IN Accumulate(ham, n, i, j, HopTerm(amp, phase, deg))

\* for ham12 in ham1, elements p..Len(ham1)
RECURSIVE HamShell(_, _, _, _, _, _, _, _)
HamShell(ham, orbs, n, kpnt, deg, vecR, ham1, p) ==
    IF p > Len(ham1) THEN ham
    ELSE HamShell(HamElem(ham, orbs, n, kpnt, deg, vecR, ham1[p]),
                  orbs, n, kpnt, deg, vecR, ham1, p + 1)

\* for deg,vecR,ham1 in zip(...), shells s..ZipLen
RECURSIVE HamLoop(_, _, _, _, _, _, _, _)
HamLoop(ham, orbs, n, kpnt, degs, rvecs, hmats, s) ==
    IF s > ZipLen(degs, rvecs, hmats) THEN ham
    ELSE HamLoop(HamShell(ham, orbs, n, kpnt, degs[s], rvecs[s], hmats[s], 1),
                 orbs, n, kpnt, degs, rvecs, hmats, s + 1)

\* ham = np.zeros((self._norb,self._norb),dtype=complex)
ZeroHam(n) == [i \in 0..(n - 1) |-> [j \in 0..(n - 1) |-> CZero]]

\* every element the loop reads has indices numpy accepts
IndicesOk(n, degs, rvecs, hmats) ==
    \A s \in 1..ZipLen(degs, rvecs, hmats) : \A p \in 1..Len(hmats[s]) :
        PyIndexOk(hmats[s][p][1], n) /\ PyIndexOk(hmats[s][p][2], n)

\* k_input is <<>> for None and <<k>> for a k-vector k
NoK == <<>>

\* mutant: the loop over the hopping table runs before k_input is tested
MutGenHamLoopFirst(orbs, n, degs, rvecs, hmats, k_input) ==
    IF ~IndicesOk(n, degs, rvecs, hmats)
    THEN [status |-> "error", exc |-> "IndexError"]
    ELSE IF k_input = NoK
    THEN [status |-> "error", exc |-> "Have to provide a k-vector!"]
    ELSE [status |-> "ok",
          ham |-> HamLoop(ZeroHam(n), orbs, n, k_input[1], degs, rvecs, hmats, 1)]

gen_ham(orbs, n, degs, rvecs, hmats, k_input) ==
    IF k_input = NoK
    THEN [status |-> "error", exc |-> "Have to provide a k-vector!"]
    ELSE IF ~IndicesOk(n, degs, rvecs, hmats)
    THEN [status |-> "error", exc |-> "IndexError"]
    ELSE [status |-> "ok",
          ham |-> HamLoop(ZeroHam(n), orbs, n, k_input[1], degs, rvecs, hmats, 1)]

\* mutant: the product is stored back into the list element
MutAmpAfterInPlace(amp, term) == term

\* the amplitude the list element ham12 holds after amp *= phase/deg: amp is a
\* Python complex number, the augmented assignment binds the local name amp
\* to a new number and the element keeps its value
AmpAfter(amp, term) == amp

\* self.Hmat_list after the loop of lines 73-81 has run to its end
HmatsAfter(orbs, n, degs, rvecs, hmats, kpnt) ==
    [s \in 1..Len(hmats) |->
        IF s > ZipLen(degs, rvecs, hmats) THEN hmats[s]
        ELSE [p \in 1..Len(hmats[s]) |->
                LET ham12 == hmats[s][p]
                    rv == HopVector(orbs, n, ham12[1], ham12[2], rvecs[s])
                IN <<ham12[1], ham12[2],
                     AmpAfter(ham12[3], HopTerm(ham12[3], HopPhase(kpnt, rv), degs[s]))>>]]

(***************************************************************************)
(* Inputs of the constructor: lattices, orbital arrays, hopping tables     *)
(***************************************************************************)
IdentityLat == <<<<1, 0, 0>>, <<0, 1, 0>>, <<0, 0, 1>>>>

\* orbital positions in units of 1/2: one orbital at the origin, or a second
\* one at (1/2, 1/2, 0)
OrbChoices ==
    { [i \in 0..0 |-> <<0, 0, 0>>],
      [i \in 0..1 |-> IF i = 0 THEN <<0, 0, 0>> ELSE <<1, 1, 0>>] }

NOrbOf(orbs) == Cardinality(DOMAIN orbs)

RVecs == { <<1, 0, 0>>, <<-1, 0, 0>> }

Amps == { <<1, 1>>, <<1, -1>> }

Degs == 1..MaxDeg

\* matrix elements (i, j, amplitude): on-site elements of orbital 0 with either
\* amplitude, and the two off-diagonal elements with conjugate amplitudes
ElemsOf(n) ==
    { <<0, 0, a>> : a \in Amps }
      \cup (IF n >= 2 THEN { <<0, 1, <<1, 1>>>>, <<1, 0, <<1, -1>>>> } ELSE {})

\* the lines of a hopping file: R, i, j, amplitude
Entries(n) == { [R |-> R, i |-> e[1], j |-> e[2], amp |-> e[3]] : R \in RVecs, e \in ElemsOf(n) }

EntrySeqs(n) == UNION { [1..m -> Entries(n)] : m \in 0..MaxEntries }

\* consecutive lines with the same R form one shell (lines 588-593 of the reader)
RECURSIVE RvecsOf(_, _)
RvecsOf(es, p) ==
    IF p > Len(es) THEN <<>>
    ELSE IF p > 1 /\ es[p].R = es[p - 1].R THEN RvecsOf(es, p + 1)
    ELSE <<es[p].R>> \o RvecsOf(es, p + 1)

RECURSIVE HmatsOf(_, _, _)
HmatsOf(es, p, acc) ==
    IF p > Len(es) THEN acc
    ELSE LET e == <<es[p].i, es[p].j, es[p].amp>>
         IN IF p > 1 /\ es[p].R = es[p - 1].R
            THEN HmatsOf(es, p + 1, [acc EXCEPT ![Len(acc)] = Append(@, e)])
            ELSE HmatsOf(es, p + 1, Append(acc, <<e>>))

(***************************************************************************)
(* tb_model.__init__ : the state after construction                        *)
(***************************************************************************)
InitModel(lat0, orb0, degs0, rvecs0, hmats0) ==
    /\ lat = lat0
    /\ orb = orb0
    /\ norb = NOrbOf(orb0)
    /\ deg_ws = degs0
    /\ Rvec_list = rvecs0
    /\ Hmat_list = hmats0
    /\ op = "idle"
    /\ arg = <<>>
    /\ ret = [status |-> "ok"]
    /\ np_precision = DefaultPrecision
    /\ thr = [c \in Callers |-> ReadyCaller]
    /\ given = [deg_ws |-> degs0, Rvec_list |-> rvecs0, Hmat_list |-> hmats0]

InitHam ==
    \E orb0 \in OrbChoices : \E es \in EntrySeqs(NOrbOf(orb0)) :
      \E degOf \in [RVecs -> Degs] :
        LET rvecs0 == RvecsOf(es, 1)
        IN InitModel(IdentityLat, orb0, [s \in 1..Len(rvecs0) |-> degOf[rvecs0[s]]],
                     rvecs0, HmatsOf(es, 1, <<>>))

(***************************************************************************)
(* k-vectors handed to _gen_ham, in units of 1/4                           *)
(***************************************************************************)
MaxK == 3

KSet == { <<kx, ky, 0>> : kx \in 0..MaxK, ky \in 0..1 }

\* the phase of every matrix element is a fourth root of unity
KExact(k) ==
    IndicesOk(norb, deg_ws, Rvec_list, Hmat_list) =>
    \A s \in 1..ZipLen(deg_ws, Rvec_list, Hmat_list) : \A p \in 1..Len(Hmat_list[s]) :
        Dot(k, HopVector(orb, norb, Hmat_list[s][p][1], Hmat_list[s][p][2],
                         Rvec_list[s])) % 2 = 0

\* the caller is between two calls
Idle == op = "idle"

\* the caller drops the result of the last call
Return ==
    /\ ~Idle
    /\ op' = "idle"
    /\ arg' = <<>>
    /\ ret' = [status |-> "ok"]
    /\ UNCHANGED <<modelVars, envVars>>

GenHam ==
    /\ Idle
    /\ \E k \in KSet :
        /\ KExact(k)
        /\ op' = "gen_ham"
        /\ arg' = [k_input |-> <<k>>]
        /\ ret' = gen_ham(orb, norb, deg_ws, Rvec_list, Hmat_list, <<k>>)
        /\ Hmat_list' = IF ret'.status = "ok"
                        THEN HmatsAfter(orb, norb, deg_ws, Rvec_list, Hmat_list, k)
                        ELSE Hmat_list
        /\ UNCHANGED <<lat, orb, norb, deg_ws, Rvec_list, envVars>>

GenHamNoK ==
    /\ Idle
    /\ op' = "gen_ham"
    /\ arg' = [k_input |-> NoK]
    /\ ret' = gen_ham(orb, norb, deg_ws, Rvec_list, Hmat_list, NoK)
    /\ UNCHANGED <<modelVars, envVars>>

NextHam == GenHam \/ GenHamNoK \/ Return

SpecHam == InitHam /\ [][NextHam]_vars

(***************************************************************************)
(* Properties of _gen_ham                                                  *)
(***************************************************************************)
Built == op = "gen_ham" /\ ret.status = "ok"

Orbs == 0..(norb - 1)

\* positions <<s, p>> of the matrix elements of the table
ElemPos == UNION { { <<s, p>> : p \in 1..Len(Hmat_list[s]) } : s \in 1..Len(Hmat_list) }

ElemAt(sp) == Hmat_list[sp[1]][sp[2]]

PosAt(i, j) == { sp \in ElemPos : ElemAt(sp)[1] = i /\ ElemAt(sp)[2] = j }

RECURSIVE CSum(_, _)
CSum(f, S) ==
    IF S = {} THEN CZero
    ELSE LET x == CHOOSE y \in S : TRUE
         IN CAdd(f[x], CSum(f, S \ {x}))

\* amplitude * exp(2*pi*i * k.(orb[j] - orb[i] + R)) / deg of the element at sp
BlochTerm(k, sp) ==
    LET e == ElemAt(sp)
        d == [c \in Dims |-> orb[e[2]][c] - orb[e[1]][c] + 2 * Rvec_list[sp[1]][c]]
    IN CDivInt(CMul(e[3], CExpTurn(Dot(k, d))), deg_ws[sp[1]])

BlochSum(k) ==
    [i \in Orbs |-> [j \in Orbs |->
        CSum([sp \in PosAt(i, j) |-> BlochTerm(k, sp)], PosAt(i, j))]]

\* n copies of the shell (deg, R, ham1)
Copies(x, n) == [c \in 1..n |-> x]

DegCopiesAgree(k) ==
    \A s \in 1..Len(Hmat_list) :
        gen_ham(orb, norb, Copies(deg_ws[s], deg_ws[s]), Copies(Rvec_list[s], deg_ws[s]),
                Copies(Hmat_list[s], deg_ws[s]), <<k>>)
          = gen_ham(orb, norb, <<1>>, <<Rvec_list[s]>>, <<Hmat_list[s]>>, <<k>>)

\* C1: build(k) is the matrix whose entry H[i,j] is the sum over all shells and
\* all their elements (i, j, amplitude) of amplitude * phase / deg; entries
\* without an element are 0, elements with the same (i, j) add up, and deg
\* copies of a shell of degeneracy deg give what one copy of degeneracy 1 gives.
C1_BlochSum ==
    Built =>
        /\ ret.ham = BlochSum(arg.k_input[1])
        /\ \A i \in Orbs, j \in Orbs : PosAt(i, j) = {} => ret.ham[i][j] = CZero
        /\ DegCopiesAgree(arg.k_input[1])

C1_Witness ==
    /\ Built
    /\ \E i \in Orbs, j \in Orbs : Cardinality(PosAt(i, j)) >= 2 /\ ret.ham[i][j] # CZero
    /\ \E i \in Orbs, j \in Orbs : PosAt(i, j) = {}
    /\ \E s \in 1..Len(deg_ws) : deg_ws[s] = 2 /\ Len(Hmat_list[s]) >= 1

Hermitian(h) ==
    \A i \in DOMAIN h, j \in DOMAIN h : h[i][j] = CConj(h[j][i])

\* sq holds the partner (j, i, conj(amp)) in a shell (-R, deg) of the element at sp
IsPartner(sp, sq) ==
    /\ ElemAt(sq) = <<ElemAt(sp)[2], ElemAt(sp)[1], CConj(ElemAt(sp)[3])>>
    /\ Rvec_list[sq[1]] = VNeg(Rvec_list[sp[1]])
    /\ deg_ws[sq[1]] = deg_ws[sp[1]]

\* sq holds the same element (i, j, amp) in a shell (R, deg) as sp
IsSame(sp, sq) ==
    /\ ElemAt(sq) = ElemAt(sp)
    /\ Rvec_list[sq[1]] = Rvec_list[sp[1]]
    /\ deg_ws[sq[1]] = deg_ws[sp[1]]

\* every element has a partner element
ValidTable == \A sp \in ElemPos : \E sq \in ElemPos : IsPartner(sp, sq)

\* every element has as many partners as it has occurrences
PairedTable ==
    \A sp \in ElemPos :
        Cardinality({ sq \in ElemPos : IsPartner(sp, sq) })
          = Cardinality({ sq \in ElemPos : IsSame(sp, sq) })

\* C2 as stated: for a table in which every element (i, j, amp) of a shell
\* (R, deg) has a partner (j, i, conj(amp)) in a shell (-R, deg), build(k) is
\* Hermitian at every k.
C2_Original == (Built /\ ValidTable) => Hermitian(ret.ham)

\* C2 amended: for a table in which every element (i, j, amp) of a shell
\* (R, deg) has as many partners (j, i, conj(amp)) in shells (-R, deg) as it has
\* occurrences in shells (R, deg), build(k) is Hermitian at every k.
C2_Hermitian == (Built /\ PairedTable) => Hermitian(ret.ham)

C2_Witness ==
    /\ Built
    /\ PairedTable
    /\ norb = 2
    /\ ret.ham[0][1] # CZero
    /\ ret.ham[0][1][2] # 0

\* integer reciprocal vectors
GSet == { <<1, 0, 0>>, <<0, 1, 0>>, <<-1, 1, 0>>, <<0, 0, 1>> }

\* k + G, k in units of 1/4
KPlusG(k, G) == [d \in Dims |-> k[d] + 4 * G[d]]

BuildAt(k) == gen_ham(orb, norb, deg_ws, Rvec_list, Hmat_list, <<k>>).ham

\* C3 as stated: build(k + G) equals build(k) element by element for every
\* integer vector G.
C3_Original ==
    Built => \A G \in GSet : BuildAt(KPlusG(arg.k_input[1], G)) = ret.ham

\* the orbital difference orb[j] - orb[i] is an integer vector
IntegerOffset(i, j) == \A d \in Dims : (orb[j][d] - orb[i][d]) % 2 = 0

\* exp(2*pi*i * G.(orb[j] - orb[i])) as a plain complex number
OrbPhase(G, i, j) ==
    LET e == CExpTurn(4 * Dot(G, [d \in Dims |-> orb[j][d] - orb[i][d]]))
    IN <<e[1] \div DegScale, e[2] \div DegScale>>

\* C3 amended: for every integer vector G, build(k + G)[i,j] equals
\* build(k)[i,j] * exp(2*pi*i * G.(orb[j] - orb[i])); it equals build(k)[i,j]
\* for the entries whose orbital difference orb[j] - orb[i] is an integer vector.
C3_Periodicity ==
    Built => \A G \in GSet :
        LET shifted == BuildAt(KPlusG(arg.k_input[1], G))
        IN \A i \in Orbs, j \in Orbs :
            /\ shifted[i][j] = CMul(ret.ham[i][j], OrbPhase(G, i, j))
            /\ IntegerOffset(i, j) => shifted[i][j] = ret.ham[i][j]

C3_Witness ==
    /\ Built
    /\ norb = 2
    /\ ret.ham[0][0] # CZero
    /\ ret.ham[0][1] # CZero
    /\ \E G \in GSet : BuildAt(KPlusG(arg.k_input[1], G))[0][1] # ret.ham[0][1]

(***************************************************************************)
(* tb_model._sol_ham and _nicefy_eig                                       *)
(***************************************************************************)
\* 1.0E-9 is 1/TolDen
TolDen == 1000000000

\* x > 1.0E-9 for a real x held in units of 1/DegScale, that is
\* x * TolDen > DegScale, written with a quotient to stay within 32 bits
GtTol(x) == x > DegScale \div TolDen

\* x = 1.0E-9
EqTol(x) == DegScale % TolDen = 0 /\ x = DegScale \div TolDen

\* numpy orders complex numbers by real part, then by imaginary part
CLess(a, b) == a[1] < b[1] \/ (a[1] = b[1] /\ a[2] < b[2])

\* ham-ham.T.conj()
HermDiff(ham) ==
    [i \in DOMAIN ham |-> [j \in DOMAIN ham |-> CSub(ham[i][j], CConj(ham[j][i]))]]

\* np.max of a complex matrix
CMatMax(m) ==
    LET vals == { m[i][j] : i \in DOMAIN m, j \in DOMAIN m }
    IN CHOOSE v \in vals : \A w \in vals : ~CLess(v, w)

\* z > 1.0E-9 for a complex z: the comparison with 1.0E-9+0j in numpy's order
CGtTol(z) == GtTol(z[1]) \/ (EqTol(z[1]) /\ z[2] > 0)

\* the test of line 87
NotHermitianTest(ham) == CGtTol(CMatMax(HermDiff(ham)))

\* eval=np.array(eval.real,dtype=float)
RealParts(eval) == [m \in DOMAIN eval |-> eval[m][1]]

IsPerm(q, D) == q \in [D -> D] /\ \A x \in D : \E y \in D : q[y] = x

\* eval.argsort(): a permutation that puts the values in non-decreasing order
ArgSorts(vals) ==
    { q \in [DOMAIN vals -> DOMAIN vals] :
        /\ IsPerm(q, DOMAIN vals)
        /\ \A m \in DOMAIN vals, n \in DOMAIN vals : m < n => vals[q[m]] <= vals[q[n]] }

\* mutant: the eigenvalues are not reordered
MutNicefyEvalNoSort(eval, args) == RealParts(eval)

\* eval=eval[args]
NicefyEval(eval, args) == [m \in DOMAIN eval |-> RealParts(eval)[args[m]]]

\* eig=eig[args]: indexes the first axis of the array
NicefyEig(eig, args) == [r \in DOMAIN eig |-> eig[args[r]]]

\* the outcome of _sol_ham(ham, eig_vectors) when the eigen-solver delivers
\* the eigenvalues raw.eval and the eigenvector array raw.eig (eig[r][c] is
\* component r of the eigenvector of eval[c]) and argsort returns args
sol_ham(ham, eig_vectors, raw, args) ==
    IF NotHermitianTest(ham)
    THEN [status |-> "error", exc |-> "Hamiltonian matrix is not hermitian?!"]
    ELSE IF eig_vectors = FALSE
    THEN [status |-> "ok", eval |-> NicefyEval(raw.eval, args)]
    ELSE [status |-> "ok", eval |-> NicefyEval(raw.eval, args),
          eig |-> NicefyEig(raw.eig, args)]

(***************************************************************************)
(* np.linalg.eigh / eigvalsh (lines 91, 96) for matrices of order 1 and 2  *)
(* with integer eigenvalues.  The solver reads the lower triangle and the  *)
(* real part of the diagonal; it may deliver the eigenpairs in any order.  *)
(***************************************************************************)
MaxH == 1

CVals == { <<x, y>> : x \in (-MaxH)..MaxH, y \in -1..1 }

SqMats(n) == [0..(n - 1) -> [0..(n - 1) -> CVals]]

Order(ham) == Cardinality(DOMAIN ham)

EigRange(ham) ==
    LET b == 2 * (MaxH + 1) IN (-b)..b

\* the roots of the characteristic polynomial of [[a, conj(c)], [c, b]]
Roots2(ham) ==
    LET a == ham[0][0][1]
        b == ham[1][1][1]
        c == ham[1][0]
    IN { x \in EigRange(ham) :
           x * x - (a + b) * x + a * b - (c[1] * c[1] + c[2] * c[2]) = 0 }

HasExactEig(ham) ==
    \/ Order(ham) = 1
    \/ Order(ham) = 2 /\ (ham[1][0] = CZero \/ Cardinality(Roots2(ham)) = 2)

Unit(n, c) == [r \in 0..(n - 1) |-> IF r = c THEN <<1, 0>> ELSE CZero]

\* the eigenpairs (value, unnormalised vector) in ascending order of the value
EigPairs(ham) ==
    IF Order(ham) = 1
    THEN [m \in 0..0 |-> [val |-> ham[0][0][1], vec |-> Unit(1, 0)]]
    ELSE IF ham[1][0] = CZero
    THEN LET a == ham[0][0][1]
             b == ham[1][1][1]
         IN IF a <= b
            THEN [m \in 0..1 |-> IF m = 0 THEN [val |-> a, vec |-> Unit(2, 0)]
                                          ELSE [val |-> b, vec |-> Unit(2, 1)]]
            ELSE [m \in 0..1 |-> IF m = 0 THEN [val |-> b, vec |-> Unit(2, 1)]
                                          ELSE [val |-> a, vec |-> Unit(2, 0)]]
    ELSE LET lo == CHOOSE x \in Roots2(ham) : \A y \in Roots2(ham) : x <= y
             hi == CHOOSE x \in Roots2(ham) : \A y \in Roots2(ham) : y <= x
             vecOf(x) == [r \in 0..1 |-> IF r = 0 THEN <<x - ham[1][1][1], 0>>
                                                  ELSE ham[1][0]]
         IN [m \in 0..1 |-> IF m = 0 THEN [val |-> lo, vec |-> vecOf(lo)]
                                     ELSE [val |-> hi, vec |-> vecOf(hi)]]

Perms(D) == { q \in [D -> D] : IsPerm(q, D) }

\* what the solver returns when it delivers the eigenpairs in the order p
Eigh(ham, p) ==
    [eval |-> [m \in DOMAIN ham |-> <<EigPairs(ham)[p[m]].val, 0>>],
     eig |-> [r \in DOMAIN ham |-> [c \in DOMAIN ham |-> EigPairs(ham)[p[c]].vec[r]]]]

HamInputs == { h \in SqMats(1) \cup SqMats(2) : HasExactEig(h) }

SolHam ==
    /\ Idle
    /\ \E ham \in HamInputs, eig_vectors \in BOOLEAN :
      \E p \in Perms(DOMAIN ham) :
        LET raw == Eigh(ham, p)
        IN \E args \in ArgSorts(RealParts(raw.eval)) :
            /\ op' = "sol_ham"
            /\ arg' = [ham |-> ham, eig_vectors |-> eig_vectors, raw |-> raw]
            /\ ret' = sol_ham(ham, eig_vectors, raw, args)
            /\ UNCHANGED <<modelVars, envVars>>

\* the caller hands the matrix it has just built to the solver
SolHamBuilt ==
    /\ Built
    /\ HasExactEig(ret.ham)
    /\ \E eig_vectors \in BOOLEAN : \E p \in Perms(DOMAIN ret.ham) :
        LET raw == Eigh(ret.ham, p)
        IN \E args \in ArgSorts(RealParts(raw.eval)) :
            /\ op' = "sol_ham"
            /\ arg' = [ham |-> ret.ham, eig_vectors |-> eig_vectors, raw |-> raw]
            /\ ret' = sol_ham(ret.ham, eig_vectors, raw, args)
            /\ UNCHANGED <<modelVars, envVars>>

OneOrbital == [i \in 0..0 |-> <<0, 0, 0>>]

InitPlain == InitModel(IdentityLat, OneOrbital, <<>>, <<>>, <<>>)

NextSol == SolHam \/ Return

SpecSol == InitPlain /\ [][NextSol]_vars

(***************************************************************************)
(* Properties of _sol_ham                                                  *)
(***************************************************************************)
Solved == op = "sol_ham" /\ ret.status = "ok"

\* |z| > 1.0E-9 for a complex z held in units of 1/DegScale, that is
\* |z|^2 * TolDen^2 > DegScale^2, written with quotients to stay within 32 bits
AbsGtTol(z) == z[1] * z[1] + z[2] * z[2] > ((DegScale * DegScale) \div TolDen) \div TolDen

\* C4: solve fails for every square matrix with an entry whose deviation
\* |H[i,j] - conj(H[j,i])| exceeds 1e-9, whether the deviation is real or
\* imaginary, on or off the diagonal.
C4_RejectsNonHermitian ==
    (op = "sol_ham" /\ \E i \in DOMAIN arg.ham, j \in DOMAIN arg.ham :
                          AbsGtTol(HermDiff(arg.ham)[i][j]))
      => ret.status = "error"

\* C5: whenever solve returns, the eigenvalues are real, there are N of them
\* and they are in non-decreasing order, whatever the order of the solver.
C5_SortedReal ==
    Solved =>
        /\ DOMAIN ret.eval = 0..(Order(arg.ham) - 1)
        /\ \A m \in DOMAIN ret.eval : ret.eval[m] \in Int
        /\ \A m \in DOMAIN ret.eval, n \in DOMAIN ret.eval :
              m < n => ret.eval[m] <= ret.eval[n]

C5_Witness ==
    /\ Solved
    /\ Order(arg.ham) = 2
    /\ arg.raw.eval[0][1] > arg.raw.eval[1][1]
    /\ ret.eval[0] < ret.eval[1]

Column(m, c) == [r \in DOMAIN m |-> m[r][c]]

RNorm(n, d) ==
    LET g == Gcd(n, d)
        sgn == IF d < 0 THEN -1 ELSE 1
    IN <<(sgn * n) \div g, (sgn * d) \div g>>

RInt(n) == <<n, 1>>

RZero == <<0, 1>>

RAdd(a, b) == RNorm(a[1] * b[2] + b[1] * a[2], a[2] * b[2])

RSub(a, b) == RNorm(a[1] * b[2] - b[1] * a[2], a[2] * b[2])

RMul(a, b) == RNorm(a[1] * b[1], a[2] * b[2])

\* a / b for b # 0
RDiv(a, b) == RNorm(a[1] * b[2], a[2] * b[1])

RLe(a, b) == a[1] * b[2] <= b[1] * a[2]

RLt(a, b) == a[1] * b[2] < b[1] * a[2]

(***************************************************************************)
(* numpy arrays: [shape, data], data in C order on 0..size-1               *)
(***************************************************************************)
RECURSIVE Prod(_, _)
Prod(shape, q) == IF q > Len(shape) THEN 1 ELSE shape[q] * Prod(shape, q + 1)

Size(shape) == Prod(shape, 1)

\* the multi-index of the flat position f
Unravel(f, shape) ==
    [q \in 1..Len(shape) |-> (f \div Prod(shape, q + 1)) % shape[q]]

\* the flat position of the multi-index idx
RECURSIVE RavelFrom(_, _, _, _)
RavelFrom(idx, shape, q, acc) ==
    IF q > Len(shape) THEN acc
    ELSE RavelFrom(idx, shape, q + 1, acc * shape[q] + idx[q])

Ravel(idx, shape) == RavelFrom(idx, shape, 1, 0)

At(a, idx) == a.data[Ravel(idx, a.shape)]

\* a.reshape(shape)
Reshape(a, shape) == [shape |-> shape, data |-> a.data]

\* the axis of the result that holds axis ax of a in a.transpose(perm)
AxisOf(perm, ax) == CHOOSE q \in 1..Len(perm) : perm[q] = ax

\* a.transpose(perm), perm a tuple of 0-based axes
Transpose(a, perm) ==
    LET shape == [q \in 1..Len(perm) |-> a.shape[perm[q] + 1]]
    IN [shape |-> shape,
        data |-> [f \in 0..(Size(shape) - 1) |->
                    LET idx == Unravel(f, shape)
                    IN At(a, [ax \in 1..Len(perm) |-> idx[AxisOf(perm, ax - 1)]])]]

\* np.tile(v, reps) for a vector v (a function on 0..n-1) and three
\* repetition counts: shape (reps[0], reps[1], reps[2]*n)
Tile(v, reps) ==
    LET n == Cardinality(DOMAIN v)
        shape == <<reps[1], reps[2], reps[3] * n>>
    IN [shape |-> shape,
        data |-> [f \in 0..(Size(shape) - 1) |-> v[Unravel(f, shape)[3] % n]]]

\* mutant: np.mgrid[1:n[0]+1,1:n[1]+1,1:n[2]+1]
MutMgridFromOne(n) ==
    LET shape == <<3, n[1], n[2], n[3]>>
    IN [shape |-> shape,
        data |-> [f \in 0..(Size(shape) - 1) |->
                    LET idx == Unravel(f, shape) IN idx[idx[1] + 2] + 1]]

\* np.mgrid[0:n[0],0:n[1],0:n[2]]: shape (3, n[0], n[1], n[2])
Mgrid(n) ==
    LET shape == <<3, n[1], n[2], n[3]>>
    IN [shape |-> shape,
        data |-> [f \in 0..(Size(shape) - 1) |->
                    LET idx == Unravel(f, shape) IN idx[idx[1] + 2]]]

\* a/b element by element, for integer arrays of one shape
Divide(a, b) ==
    [shape |-> a.shape,
     data |-> [f \in 0..(Size(a.shape) - 1) |-> RNorm(a.data[f], b.data[f])]]

(***************************************************************************)
(* tb_model.k_uniform_mesh                                                 *)
(***************************************************************************)
\* round of an integer entry
RoundInt(x) == x

\* norm, lines 162-164
MeshNorm(use_mesh) ==
    LET tiled == Tile([d \in 0..2 |-> use_mesh[d + 1]], use_mesh)
        shaped == Reshape(tiled, <<use_mesh[1], use_mesh[2], use_mesh[3], 3>>)
    IN Transpose(shaped, <<3, 0, 1, 2>>)

\* mutant: the axes are reversed before the final reshape
MutMeshReshapeReversed(k_vec, use_mesh) ==
    Reshape(Transpose(k_vec, <<3, 2, 1, 0>>),
            <<use_mesh[1] * use_mesh[2] * use_mesh[3], 3>>)

\* the final reshape, line 167
MeshReshape(k_vec, use_mesh) ==
    Reshape(Transpose(k_vec, <<1, 2, 3, 0>>),
            <<use_mesh[1] * use_mesh[2] * use_mesh[3], 3>>)

\* the rows of an array of shape (n, 3)
Rows(a) == [f \in 0..(a.shape[1] - 1) |-> [d \in Dims |-> At(a, <<f, d - 1>>)]]

\* mutant: if np.min(use_mesh)<0
MutMeshTooSmallStrict(use_mesh) == \E d \in 1..Len(use_mesh) : use_mesh[d] < 0

\* if np.min(use_mesh)<=0, line 134
MeshTooSmall(use_mesh) == \E d \in 1..Len(use_mesh) : use_mesh[d] <= 0

k_uniform_mesh(mesh_size) ==
    LET use_mesh == [d \in 1..Len(mesh_size) |-> RoundInt(mesh_size[d])]
    IN IF Len(use_mesh) # dim_k
       THEN [status |-> "error", exc |-> "Incorrect size of the specified k-mesh!"]
       ELSE IF MeshTooSmall(use_mesh)
       THEN [status |-> "error",
             exc |-> "Mesh must have positive non-zero number of elements."]
       ELSE [status |-> "ok",
             k_vec |-> Rows(MeshReshape(Divide(Mgrid(use_mesh), MeshNorm(use_mesh)),
                                        use_mesh))]

MaxMesh == 3

MeshSizes == UNION { [1..len -> (-1)..MaxMesh] : len \in 2..3 }

KUniformMesh ==
    /\ Idle
    /\ \E mesh_size \in MeshSizes :
        /\ op' = "k_uniform_mesh"
        /\ arg' = [mesh_size |-> mesh_size]
        /\ ret' = k_uniform_mesh(mesh_size)
        /\ UNCHANGED <<modelVars, envVars>>

NextMesh == KUniformMesh \/ Return

SpecMesh == InitPlain /\ [][NextMesh]_vars

(***************************************************************************)
(* Properties of k_uniform_mesh                                            *)
(***************************************************************************)
Meshed == op = "k_uniform_mesh" /\ ret.status = "ok"

ZeroVec == [d \in Dims |-> RZero]

\* C7: for dims of positive integers the mesh has n1*n2*n3 points, the zero
\* vector occurs exactly once and coordinate d of every point is a multiple
\* i/n_d with 0 <= i < n_d, so it lies in [0, 1).
C7_MeshComplete ==
    Meshed =>
        LET n == arg.mesh_size
        IN /\ DOMAIN ret.k_vec = 0..(n[1] * n[2] * n[3] - 1)
           /\ Cardinality({ f \in DOMAIN ret.k_vec : ret.k_vec[f] = ZeroVec }) = 1
           /\ \A f \in DOMAIN ret.k_vec : \A d \in Dims :
                /\ RLe(RZero, ret.k_vec[f][d]) /\ RLt(ret.k_vec[f][d], RInt(1))
                /\ \E i \in 0..(n[d] - 1) : ret.k_vec[f][d] = RNorm(i, n[d])

C7_Witness ==
    /\ Meshed
    /\ arg.mesh_size = <<2, 3, 1>>
    /\ Cardinality(DOMAIN ret.k_vec) = 6

\* C8: the point at position (i1*n2 + i2)*n3 + i3 is (i1/n1, i2/n2, i3/n3):
\* row-major order, last dimension fastest.
C8_RowMajor ==
    Meshed =>
        LET n == arg.mesh_size
        IN \A i1 \in 0..(n[1] - 1), i2 \in 0..(n[2] - 1), i3 \in 0..(n[3] - 1) :
              ret.k_vec[(i1 * n[2] + i2) * n[3] + i3]
                = <<RNorm(i1, n[1]), RNorm(i2, n[2]), RNorm(i3, n[3])>>

C8_Witness ==
    /\ Meshed
    /\ arg.mesh_size = <<2, 3, 2>>
    /\ ret.k_vec[1] = <<RZero, RZero, RNorm(1, 2)>>
    /\ ret.k_vec[2] = <<RZero, RNorm(1, 3), RZero>>
    /\ ret.k_vec[6] = <<RNorm(1, 2), RZero, RZero>>

MeshCalled == op = "k_uniform_mesh"

\* C13: uniformMesh fails with an error, and returns no points, if an entry
\* of dims is <= 0 or dims does not have 3 entries; for 3 positive integers it
\* succeeds.
C13_MeshErrors ==
    MeshCalled =>
        LET n == arg.mesh_size
        IN IF Len(n) # 3 \/ (\E d \in 1..Len(n) : n[d] <= 0)
           THEN /\ ret.status = "error"
                /\ ret.exc \in { "Incorrect size of the specified k-mesh!",
                                 "Mesh must have positive non-zero number of elements." }
                /\ DOMAIN ret = { "status", "exc" }
           ELSE /\ ret.status = "ok"
                /\ Cardinality(DOMAIN ret.k_vec) = n[1] * n[2] * n[3]

C13_Witness ==
    /\ MeshCalled
    /\ arg.mesh_size = <<2, 0, 1>>
    /\ ret.status = "error"
    /\ ret.exc = "Mesh must have positive non-zero number of elements."

(***************************************************************************)
(* tb_model.k_path                                                         *)
(***************************************************************************)
Diag(a, b, c) == <<<<a, 0, 0>>, <<0, b, 0>>, <<0, 0, c>>>>

\* k_metric = np.linalg.inv(np.dot(lat_per,lat_per.T)) for a diagonal lattice
KMetric(lat_per) ==
    [r \in Dims |-> [c \in Dims |->
        IF r = c THEN RNorm(1, lat_per[r][r] * lat_per[r][r]) ELSE RZero]]

\* np.dot(dk,np.dot(k_metric,dk)) for a vector dk of rationals
MetricForm(k_metric, dk) ==
    LET row(r) == RAdd(RMul(k_metric[r][1], dk[1]),
                       RAdd(RMul(k_metric[r][2], dk[2]), RMul(k_metric[r][3], dk[3])))
    IN RAdd(RMul(dk[1], row(1)), RAdd(RMul(dk[2], row(2)), RMul(dk[3], row(3))))

IsSquare(n) == \E r \in 0..n : r * r = n

ISqrt(n) == CHOOSE r \in 0..n : r * r = n

\* np.sqrt of a rational that is the square of a rational
RSqrt(x) == <<ISqrt(x[1]), ISqrt(x[2])>>

RVec(v) == [d \in 1..Len(v) |-> RInt(v[d])]

RVSub(u, v) == [d \in Dims |-> RSub(u[d], v[d])]

\* k_i+frac*(k_f-k_i)
RVLerp(k_i, k_f, frac) == [d \in Dims |-> RAdd(k_i[d], RMul(frac, RSub(k_f[d], k_i[d])))]

\* dklen of line 276 for the step from node n-1 to node n
SegLenSq(lat_per, k_list, n) ==
    MetricForm(KMetric(lat_per), RVSub(RVec(k_list[n]), RVec(k_list[n - 1])))

\* k_node, lines 273-277
RECURSIVE KNode(_, _, _)
KNode(lat_per, k_list, n) ==
    IF n = 0 THEN RZero
    ELSE RAdd(KNode(lat_per, k_list, n - 1), RSqrt(SegLenSq(lat_per, k_list, n)))

\* mutant: int(frac*(nk-1)) without round
MutRoundDown(x) == x[1] \div x[2]

\* round(x) for a rational x >= 0: to the nearest integer, a tie to the even one
Round(x) ==
    LET fl == x[1] \div x[2]
        rem == x[1] - fl * x[2]
    IN IF 2 * rem < x[2] THEN fl
       ELSE IF 2 * rem > x[2] THEN fl + 1
       ELSE IF fl % 2 = 0 THEN fl ELSE fl + 1

\* node_index, lines 280-284
NodeIndex(k_node, n_nodes, nk) ==
    [n \in 0..(n_nodes - 1) |->
        IF n = 0 THEN 0
        ELSE IF n = n_nodes - 1 THEN nk - 1
        ELSE Round(RMul(RDiv(k_node[n], k_node[n_nodes - 1]), RInt(nk - 1)))]

\* mutant: for j in range(n_i,n_f)
MutSegRangeExclusive(n_i, n_f) == n_i..(n_f - 1)

\* for j in range(n_i,n_f+1)
SegRange(n_i, n_f) == n_i..n_f

\* the inner loop, lines 301-304, for the segment ending in node n
PathSegment(out, k_list, k_node, node_index, n) ==
    LET n_i == node_index[n - 1]
        n_f == node_index[n]
        frac(j) == RNorm(j - n_i, n_f - n_i)
    IN [k_dist |-> [j \in DOMAIN out.k_dist |->
                      IF j \in SegRange(n_i, n_f)
                      THEN RAdd(k_node[n - 1], RMul(frac(j), RSub(k_node[n], k_node[n - 1])))
                      ELSE out.k_dist[j]],
        k_vec |-> [j \in DOMAIN out.k_vec |->
                      IF j \in SegRange(n_i, n_f)
                      THEN RVLerp(RVec(k_list[n - 1]), RVec(k_list[n]), frac(j))
                      ELSE out.k_vec[j]]]

\* the loop over the segments n..n_nodes-1, lines 294-304
RECURSIVE PathLoop(_, _, _, _, _, _)
PathLoop(out, k_list, k_node, node_index, n, n_nodes) ==
    IF n > n_nodes - 1 THEN out
    ELSE PathLoop(PathSegment(out, k_list, k_node, node_index, n),
                  k_list, k_node, node_index, n + 1, n_nodes)

\* the arrays before the loop, lines 288-293
PathStart(k_list, nk) ==
    [k_dist |-> [j \in 0..(nk - 1) |-> RZero],
     k_vec |-> [j \in 0..(nk - 1) |-> IF j = 0 THEN RVec(k_list[0]) ELSE ZeroVec]]

\* np_precision after the report of lines 310-331 has run alone:
\* original=np.get_printoptions(), np.set_printoptions(precision=5), the
\* printout, np.set_printoptions(precision=original["precision"])
PrecisionAfterReport(prec) ==
    LET original == prec
        printing == ReportPrecision
    IN original

\* mutant: the segment length is stored into k_node[n] instead of dk
MutPathReportIntoNode(env, n_nodes) ==
    [env EXCEPT !.k_node[n_nodes - 1] =
                    RSub(env.k_node[n_nodes - 1], env.k_node[n_nodes - 2])]

\* the locals after the report, lines 310-331: the printout binds original,
\* lat_per_inv, kpts_cart and dk_str, and its loop rebinds dk to the length
\* of each segment in turn; k_vec, k_dist and k_node are only printed
PathReport(env, n_nodes) ==
    [env EXCEPT !.dk = RSub(env.k_node[n_nodes - 1], env.k_node[n_nodes - 2])]

\* mutant: if nk<=k_list.shape[0]
MutTooFewPointsInclusive(nk, n_nodes) == nk <= n_nodes

\* if nk<k_list.shape[0], line 259
TooFewPoints(nk, n_nodes) == nk < n_nodes

\* kpts is a sequence of nodes; k_list[n] is node n
k_path(lat_per, kpts, nk, report) ==
    LET n_nodes == Len(kpts)
        k_list == [n \in 0..(n_nodes - 1) |-> kpts[n + 1]]
        k_node == [n \in 0..(n_nodes - 1) |-> KNode(lat_per, k_list, n)]
        node_index == NodeIndex(k_node, n_nodes, nk)
        out == PathLoop(PathStart(k_list, nk), k_list, k_node, node_index, 1, n_nodes)
    IN IF Len(kpts[1]) # dim_k
       THEN [status |-> "error", exc |-> "k-space dimensions do not match"]
       ELSE IF TooFewPoints(nk, n_nodes)
       THEN [status |-> "error",
             exc |-> "Must have more points in the path than number of nodes."]
       ELSE IF n_nodes > 2 /\ k_node[n_nodes - 1] = RZero
       THEN [status |-> "error", exc |-> "ValueError: cannot convert float NaN to integer"]
       ELSE IF \E n \in 1..(n_nodes - 1) : node_index[n] = node_index[n - 1]
       THEN [status |-> "error", exc |-> "ZeroDivisionError: float division by zero"]
       ELSE LET computed == [k_vec |-> out.k_vec, k_dist |-> out.k_dist, k_node |-> k_node,
                             dk |-> RVSub(RVec(k_list[n_nodes - 1]),
                                          RVec(k_list[n_nodes - 2]))]
                env == IF report = TRUE THEN PathReport(computed, n_nodes) ELSE computed
            IN [status |-> "ok", k_vec |-> env.k_vec, k_dist |-> env.k_dist,
                k_node |-> env.k_node]

MaxCoord == 4

MaxNodes == 3

MaxNk == 4

MaxLat == 2

NodePts == { <<x, 0, 0>> : x \in 0..MaxCoord } \cup { <<0, 3, 0>> }

\* nodes of the wrong width
NodePts2 == { <<0, 0>>, <<1, 0>> }

NodeLists ==
    UNION { [1..m -> NodePts] : m \in 2..MaxNodes } \cup [1..2 -> NodePts2]

LatChoices == { Diag(a, 1, 1) : a \in 1..MaxLat } \cup { Diag(1, 2, 1) }

\* every segment length is a rational number
PathExact(lat_per, kpts) ==
    Len(kpts[1]) = dim_k =>
        \A n \in 2..Len(kpts) :
            LET x == SegLenSq(lat_per, [m \in 0..(Len(kpts) - 1) |-> kpts[m + 1]], n - 1)
            IN IsSquare(x[1]) /\ IsSquare(x[2])

InitPath ==
    \E lat0 \in LatChoices : InitModel(lat0, OneOrbital, <<>>, <<>>, <<>>)

KPath ==
    /\ Idle
    /\ \E kpts \in { l \in NodeLists : PathExact(lat, l) } :
      \E nk \in 1..MaxNk, report \in BOOLEAN :
        /\ op' = "k_path"
        /\ arg' = [kpts |-> kpts, nk |-> nk, report |-> report]
        /\ ret' = k_path(lat, kpts, nk, report)
        /\ np_precision' = IF ret'.status = "ok" /\ report
                           THEN PrecisionAfterReport(np_precision)
                           ELSE np_precision
        /\ UNCHANGED <<modelVars, thr, given>>

NextPath == KPath \/ Return

SpecPath == InitPath /\ [][NextPath]_vars

(***************************************************************************)
(* Properties of k_path                                                    *)
(***************************************************************************)
PathCalled == op = "k_path"

Pathed == PathCalled /\ ret.status = "ok"

\* C9: whenever path returns for at least 2 nodes, the first k-vector is
\* nodes[0], the last is nodes[-1] and the accumulated distance is
\* non-decreasing over the indices 0..totalPoints-1.
C9_Endpoints ==
    (Pathed /\ Len(arg.kpts) >= 2) =>
        /\ ret.k_vec[0] = RVec(arg.kpts[1])
        /\ ret.k_vec[arg.nk - 1] = RVec(arg.kpts[Len(arg.kpts)])
        /\ \A j \in 0..(arg.nk - 2) : RLe(ret.k_dist[j], ret.k_dist[j + 1])

C9_Witness ==
    /\ Pathed
    /\ Len(arg.kpts) = 3
    /\ arg.nk = 4
    /\ arg.kpts[1] # arg.kpts[3]
    /\ arg.kpts[3] # <<0, 0, 0>>
    /\ RLt(ret.k_dist[1], ret.k_dist[2])

\* consecutive nodes differ
DistinctNodes == \A n \in 2..Len(arg.kpts) : arg.kpts[n] # arg.kpts[n - 1]

\* C10: for at least 2 nodes of width 3 and totalPoints >= number of nodes,
\* path returns totalPoints k-vectors, as many accumulated distances and one
\* node distance per node; it fails only in the two configuration-error cases.
\* Stated here for the node lists without a zero-length segment.
C10_NoOtherFailure ==
    (PathCalled /\ DistinctNodes) =>
        /\ (Len(arg.kpts) >= 2 /\ Len(arg.kpts[1]) = dim_k /\ arg.nk >= Len(arg.kpts))
              => /\ ret.status = "ok"
                 /\ DOMAIN ret.k_vec = 0..(arg.nk - 1)
                 /\ DOMAIN ret.k_dist = 0..(arg.nk - 1)
                 /\ DOMAIN ret.k_node = 0..(Len(arg.kpts) - 1)
        /\ ret.status = "error"
              => ret.exc \in { "k-space dimensions do not match",
                               "Must have more points in the path than number of nodes." }

\* a path call gives what the call with the other value of report gives on
\* the model as it was, and changes no field of the model
ReportStep ==
    PathCalled' =>
        /\ ret' = k_path(lat, arg'.kpts, arg'.nk, ~arg'.report)
        /\ modelVars' = modelVars

\* C18: path with report=true and path with report=false have the same
\* outcome, the same error or the same k-vectors, accumulated distances and
\* node distances, and neither changes the model.
C18_ReportNeutral == [][ReportStep]_vars

C18_Witness ==
    /\ Pathed
    /\ arg.report = TRUE
    /\ Len(arg.kpts) = 3
    /\ arg.nk = 4
    /\ RLt(ret.k_node[1], ret.k_node[2])

\* node n of the call, n from 0
NodeOf(n) == RVec(arg.kpts[n + 1])

\* the integer i is at most 1/2 away from the rational x
Nearest(i, x) == Abs(2 * (i * x[2] - x[1])) <= x[2]

\* the node distances returned are those of the claim: 0 for the first node,
\* then the distance of the last node plus dist(nodes[n] - nodes[n-1])
NodeDistAsStated ==
    /\ DOMAIN ret.k_node = 0..(Len(arg.kpts) - 1)
    /\ ret.k_node[0] = RZero
    /\ \A n \in 1..(Len(arg.kpts) - 1) :
          LET step == RSub(ret.k_node[n], ret.k_node[n - 1])
          IN /\ RLe(RZero, step)
             /\ RMul(step, step)
                  = MetricForm(KMetric(lat), RVSub(NodeOf(n), NodeOf(n - 1)))

\* index is the placement of the claim: 0 for the first node, totalPoints-1
\* for the last, the rounded proportional position for an interior node
PlacedAsStated(index) ==
    LET last == Len(arg.kpts) - 1
    IN /\ index[0] = 0
       /\ index[last] = arg.nk - 1
       /\ \A n \in 1..(last - 1) :
             Nearest(index[n], RMul(RInt(arg.nk - 1),
                                    RDiv(ret.k_node[n], ret.k_node[last])))

\* the returned sequences pass through the nodes at index and are linear in
\* the point index between two nodes
InterpolatedAt(index) ==
    /\ \A n \in 0..(Len(arg.kpts) - 1) :
          /\ ret.k_vec[index[n]] = NodeOf(n)
          /\ ret.k_dist[index[n]] = ret.k_node[n]
    /\ \A n \in 1..(Len(arg.kpts) - 1) :
          \A j \in (index[n - 1] + 1)..(index[n] - 1) :
             LET frac == RNorm(j - index[n - 1], index[n] - index[n - 1])
             IN /\ ret.k_vec[j] = [d \in Dims |->
                       RAdd(NodeOf(n - 1)[d],
                            RMul(frac, RSub(NodeOf(n)[d], NodeOf(n - 1)[d])))]
                /\ ret.k_dist[j] =
                       RAdd(ret.k_node[n - 1],
                            RMul(frac, RSub(ret.k_node[n], ret.k_node[n - 1])))

\* C19: whenever path returns, the node distances are the cumulative
\* distances of the nodes, the first node sits at index 0, the last at
\* totalPoints-1 and each interior node at round((totalPoints-1) *
\* node_dist[n] / node_dist[last]); at these indices the k-vector is the node
\* and the accumulated distance is the node distance, and the points between
\* two node indices interpolate both linearly by index fraction.
C19_NodePlacement ==
    Pathed =>
        /\ NodeDistAsStated
        /\ \E index \in [0..(Len(arg.kpts) - 1) -> 0..(arg.nk - 1)] :
              PlacedAsStated(index) /\ InterpolatedAt(index)

C19_Witness ==
    /\ Pathed
    /\ Len(arg.kpts) = 3
    /\ arg.nk = 4
    /\ ret.k_vec[2] = NodeOf(1)
    /\ ret.k_vec[1] \notin { NodeOf(0), NodeOf(1), NodeOf(2) }
    /\ ret.k_dist[2] = ret.k_node[1]

\* two consecutive nodes of the call coincide
CoincidentNodes == \E n \in 2..Len(arg.kpts) : arg.kpts[n] = arg.kpts[n - 1]

\* C20: a path with a zero-length segment, for 2 or more nodes of width 3 and
\* totalPoints >= the number of nodes, fails instead of returning k-points.
C20_CoincidentFails ==
    (/\ PathCalled
     /\ Len(arg.kpts) >= 2
     /\ Len(arg.kpts[1]) = dim_k
     /\ arg.nk >= Len(arg.kpts)
     /\ CoincidentNodes)
        => ret.status = "error"

\* the two failures k_path raises itself, lines 256 and 260
PathConfigErrors ==
    { "k-space dimensions do not match",
      "Must have more points in the path than number of nodes." }

Det3(a) ==
    LET e(r, c) == At(a, <<r, c>>)
    IN e(0, 0) * (e(1, 1) * e(2, 2) - e(1, 2) * e(2, 1))
         - e(0, 1) * (e(1, 0) * e(2, 2) - e(1, 2) * e(2, 0))
         + e(0, 2) * (e(1, 0) * e(2, 1) - e(1, 1) * e(2, 0))

\* 1.0E-6 is 1/DetTolDen
DetTolDen == 1000000

\* np.abs(np.linalg.det(self._lat))<1.0E-6
DetTooSmall(d) == Abs(d) * DetTolDen < 1

\* np.linalg.det(self._lat)<0.0
LeftHanded(d) == d < 0

\* mutant: nspin not in [0,1,2]
MutNspinAllowedZero == { 0, 1, 2 }

\* nspin not in [1,2]
NspinAllowed == { 1, 2 }

\* the rows of an array of shape (3, 3)
LatRows(a) == [r \in 1..dim_r |-> [c \in 1..dim_r |-> At(a, <<r - 1, c - 1>>)]]

\* the rows of an array of shape (n, 3)
OrbRows(a) == [i \in 0..(a.shape[1] - 1) |-> [d \in Dims |-> At(a, <<i, d - 1>>)]]

InitError(msg) == [status |-> "error", exc |-> msg]

tb_init(lat_in, orb_in, degs, rvecs, hmats, nspin) ==
    IF lat_in.shape # <<dim_r, dim_r>>
    THEN InitError("Wrong lat array dimensions")
    ELSE IF DetTooSmall(Det3(lat_in))
    THEN InitError("Lattice vectors length/area/volume too close to zero, or zero.")
    ELSE IF LeftHanded(Det3(lat_in))
    THEN InitError("Lattice vectors need to form right handed system.")
    ELSE IF Len(orb_in.shape) # 2
    THEN InitError("Wrong orb array rank")
    ELSE IF orb_in.shape[2] # dim_r
    THEN InitError("Wrong orb array dimensions")
    ELSE IF nspin \notin NspinAllowed
    THEN InitError("Wrong value of nspin, must be 1 or 2!")
    ELSE [status |-> "ok", lat |-> LatRows(lat_in), orb |-> OrbRows(orb_in),
          norb |-> orb_in.shape[1], nspin |-> nspin,
          deg_ws |-> degs, Rvec_list |-> rvecs, Hmat_list |-> hmats]

MaxLatEntry == 2

MaxOrbRows == 2

MaxNspin == 3

\* the array np.array(rows) of a 3x3 list of rows
FromRows(rows) ==
    [shape |-> <<3, 3>>, data |-> [f \in 0..8 |-> rows[(f \div 3) + 1][(f % 3) + 1]]]

\* an array of the given shape filled with v
Full(shape, v) == [shape |-> shape, data |-> [f \in 0..(Size(shape) - 1) |-> v]]

\* lattices: diagonal ones, an exchange of two axes, two equal rows, and
\* arrays that are not of shape (3, 3)
LatInputs ==
    { FromRows(Diag(a, b, c)) : a, b, c \in (-1)..MaxLatEntry }
      \cup { FromRows(<<<<0, 1, 0>>, <<1, 0, 0>>, <<0, 0, 1>>>>),
             FromRows(<<<<1, 1, 0>>, <<1, 1, 0>>, <<0, 0, 1>>>>) }
      \cup { Full(shape, 1) : shape \in { <<2, 2>>, <<3, 2>>, <<2, 3>>, <<3>>, <<9>>,
                                         <<3, 3, 1>> } }

\* orbital arrays: n rows of width 2, 3 or 4, and arrays of rank 0, 1 and 3
OrbInputs ==
    { [shape |-> <<n, w>>,
       data |-> [f \in 0..(n * w - 1) |-> IF f \div w = 1 /\ f % w < 2 THEN 1 ELSE 0]] :
         n \in 0..MaxOrbRows, w \in 2..4 }
      \cup { Full(shape, 0) : shape \in { <<>>, <<3>>, <<1, 1, 3>> } }

NoModel == <<>>

\* no model has been constructed
InitNone == InitModel(NoModel, NoModel, <<>>, <<>>, <<>>)

\* tb_model(lat, orb, deg_ws, Rvec_list, Hmat_list, nspin)
Construct ==
    /\ Idle
    /\ lat = NoModel
    /\ \E lat_in \in LatInputs, orb_in \in OrbInputs, nspin \in 0..MaxNspin :
        LET made == tb_init(lat_in, orb_in, <<>>, <<>>, <<>>, nspin)
        IN /\ op' = "__init__"
           /\ arg' = [lat |-> lat_in, orb |-> orb_in, nspin |-> nspin]
           /\ ret' = [f \in DOMAIN made \cap { "status", "exc" } |-> made[f]]
           /\ IF made.status = "ok"
              THEN /\ lat' = made.lat
                   /\ orb' = made.orb
                   /\ norb' = made.norb
                   /\ deg_ws' = made.deg_ws
                   /\ Rvec_list' = made.Rvec_list
                   /\ Hmat_list' = made.Hmat_list
              ELSE UNCHANGED modelVars
           /\ UNCHANGED envVars

NextCons == Construct \/ Return

SpecCons == InitNone /\ [][NextCons]_vars

(***************************************************************************)
(* Properties of __init__                                                  *)
(***************************************************************************)
Constructing == op = "__init__"

\* one of the six conditions that make construction fail
BadGeometry ==
    \/ arg.lat.shape # <<3, 3>>
    \/ Det3(arg.lat) = 0
    \/ Det3(arg.lat) < 0
    \/ Len(arg.orb.shape) # 2
    \/ arg.orb.shape[2] # 3
    \/ arg.nspin \notin { 1, 2 }

ChainDegs == <<1, 1>>

ChainRvecs == <<<<1, 0, 0>>, <<-1, 0, 0>>>>

ChainHmats(t) == <<<<<<0, 0, t>>>>, <<<<0, 0, CConj(t)>>>>>>

EngineLats == { IdentityLat, Diag(2, 1, 1) }

\* a chain with t = 1+1j on one of two lattices
InitEngine ==
    \E lat0 \in EngineLats :
        InitModel(lat0, OneOrbital, ChainDegs, ChainRvecs, ChainHmats(<<1, 1>>))

NextEngine ==
    GenHam \/ GenHamNoK \/ SolHam \/ SolHamBuilt \/ KUniformMesh \/ KPath \/ Return

SpecEngine == InitEngine /\ [][NextEngine]_vars

\* one step of the engine keeps the model's fields, hands the built matrix to
\* the solver as it was returned, and a build repeated on the model as it is
\* after the call gives the matrix just returned
ModelKept ==
    /\ modelVars' = modelVars
    /\ (op = "gen_ham" /\ op' = "sol_ham") => arg'.ham = ret.ham
    /\ (op' = "gen_ham" /\ ret'.status = "ok")
          => ret' = gen_ham(orb', norb', deg_ws', Rvec_list', Hmat_list', arg'.k_input)

\* C14: no build, solve, uniformMesh or path call, successful or failed,
\* changes the lattice, the orbital positions, the degeneracy list, the
\* R-vector list or the matrix-element lists; the solver leaves the matrix it
\* is given as it was; a build repeated with the same k returns the same matrix.
C14_NeverMutates == [][ModelKept]_vars

C14_Witness ==
    /\ Built
    /\ lat = Diag(2, 1, 1)
    /\ Hmat_list = ChainHmats(<<1, 1>>)
    /\ arg.k_input = <<<<1, 0, 0>>>>
    /\ ret.ham[0][0] # CZero

(***************************************************************************)
(* The chain: identity lattice, one orbital at the origin, hopping t to    *)
(* the right and conj(t) to the left                                       *)
(***************************************************************************)
MaxT == 2

ChainAmps == { <<a, b>> : a \in (-MaxT)..MaxT, b \in (-MaxT)..MaxT }

InitChain ==
    \E t \in ChainAmps :
        InitModel(IdentityLat, OneOrbital, ChainDegs, ChainRvecs, ChainHmats(t))

NextChain == GenHam \/ GenHamNoK \/ SolHamBuilt \/ Return

SpecChain == InitChain /\ [][NextChain]_vars

\* the amplitude t of the chain
ChainT == Hmat_list[1][1][3]

\* cos(2 pi q/4) and sin(2 pi q/4)
CosQuarter(q) == CASE q % 4 = 0 -> 1 [] q % 4 = 2 -> -1 [] OTHER -> 0

SinQuarter(q) == CASE q % 4 = 1 -> 1 [] q % 4 = 3 -> -1 [] OTHER -> 0

\* the call was build([q/4, 0, 0])
BuiltOnAxis == Built /\ arg.k_input[1][2] = 0 /\ arg.k_input[1][3] = 0

\* the call was solve of the matrix build([0, 0, 0]) returns
SolvedAtZero == op = "sol_ham" /\ arg.ham = BuildAt(<<0, 0, 0>>)

\* C16 as stated: build([k,0,0]) is the real scalar 2*Re(t)*cos(2 pi k), and
\* solve at k=0 returns the eigenvalue 2*Re(t).
C16_Original ==
    /\ BuiltOnAxis =>
          ret.ham[0][0] = <<2 * DegScale * ChainT[1] * CosQuarter(arg.k_input[1][1]), 0>>
    /\ SolvedAtZero =>
          ret.status = "ok" /\ ret.eval[0] = 2 * DegScale * ChainT[1]

\* C16: for the chain, build([k,0,0]) is the 1x1 real scalar
\* 2*Re(t*exp(2 pi i k)) = 2*(Re(t)*cos(2 pi k) - Im(t)*sin(2 pi k)), which is
\* 2*Re(t) at k=0, -2*Re(t) at k=1/2 and -2*Im(t) at k=1/4, and solve of the
\* matrix built at k=0 returns the single eigenvalue 2*Re(t).
C16_Chain ==
    /\ BuiltOnAxis =>
          LET q == arg.k_input[1][1]
          IN /\ DOMAIN ret.ham = 0..0
             /\ ret.ham[0][0]
                  = <<2 * DegScale * (ChainT[1] * CosQuarter(q) - ChainT[2] * SinQuarter(q)), 0>>
             /\ q = 0 => ret.ham[0][0] = <<2 * DegScale * ChainT[1], 0>>
             /\ q = 2 => ret.ham[0][0] = <<-2 * DegScale * ChainT[1], 0>>
             /\ q = 1 => ret.ham[0][0] = <<-2 * DegScale * ChainT[2], 0>>
    /\ SolvedAtZero =>
          /\ ret.status = "ok"
          /\ DOMAIN ret.eval = 0..0
          /\ ret.eval[0] = 2 * DegScale * ChainT[1]

C16_Witness ==
    /\ BuiltOnAxis
    /\ ChainT = <<1, 2>>
    /\ arg.k_input[1][1] = 1
    /\ ret.ham[0][0] = <<-4 * DegScale, 0>>

(***************************************************************************)
(* build without a k-vector, on chains and on tables that name an orbital  *)
(* the model does not have                                                 *)
(***************************************************************************)
\* orbital indices that numpy rejects for a model of one orbital
BadIndices == { 1, -2 }

InitBadIndex ==
    \E t \in ChainAmps, i \in BadIndices :
        InitModel(IdentityLat, OneOrbital, ChainDegs, ChainRvecs,
                  <<<<<<0, i, t>>>>, <<<<i, 0, CConj(t)>>>>>>)

InitNoK == InitChain \/ InitBadIndex

NextNoK == GenHam \/ GenHamNoK \/ Return

SpecNoK == InitNoK /\ [][NextNoK]_vars

BuildCalledNoK == op = "gen_ham" /\ arg.k_input = NoK

\* a build without k ends in the error of line 70 and changes no field
NoKStep ==
    (BuildCalledNoK)' =>
        /\ ret' = [status |-> "error", exc |-> "Have to provide a k-vector!"]
        /\ modelVars' = modelVars

\* C17: build without a k-vector fails with the error 'Have to provide a
\* k-vector!', returns no matrix, fails so even when the hopping table holds an
\* entry the loop could not read, and leaves the model's fields as they were.
C17_NoK == [][NoKStep]_vars

C17_Witness ==
    /\ BuildCalledNoK
    /\ ret.status = "error"
    /\ ~IndicesOk(norb, deg_ws, Rvec_list, Hmat_list)

(***************************************************************************)
(* build on tables with an orbital index outside 0..N-1                    *)
(***************************************************************************)
\* negative indices numpy accepts for a model of one orbital: they count
\* from the end of the axis
WrapIndices == { -1 }

InitWrapIndex ==
    \E t \in ChainAmps, i \in WrapIndices :
        InitModel(IdentityLat, OneOrbital, ChainDegs, ChainRvecs,
                  <<<<<<0, i, t>>>>, <<<<i, 0, CConj(t)>>>>>>)

InitIndex == InitBadIndex \/ InitWrapIndex

SpecIndex == InitIndex /\ [][NextNoK]_vars

\* the table holds an element whose i or j is not in 0..N-1
OutOfRangeElement ==
    \E sp \in ElemPos : ElemAt(sp)[1] \notin Orbs \/ ElemAt(sp)[2] \notin Orbs

\* C22: build with a k-vector fails for every table that holds an element
\* whose orbital index lies outside 0..N-1, a negative index included.
C22_IndexRejected ==
    (op = "gen_ham" /\ arg.k_input # NoK /\ OutOfRangeElement) => ret.status = "error"

(***************************************************************************)
(* build on tables whose three lists differ in length: __init__ stores     *)
(* the lists as given (lines 57-59), without comparing their lengths       *)
(***************************************************************************)
\* the chain's lists cut to nd degeneracies, nr R-vectors and nh shells
InitRagged ==
    \E t \in ChainAmps : \E nd \in 1..2, nr \in 1..2, nh \in 1..2 :
        InitModel(IdentityLat, OneOrbital, SubSeq(ChainDegs, 1, nd),
                  SubSeq(ChainRvecs, 1, nr), SubSeq(ChainHmats(t), 1, nh))

SpecRagged == InitRagged /\ [][NextNoK]_vars

\* C23: build with a k-vector either fails or uses every shell of the
\* matrix-element lists: there is a degeneracy and an R-vector for each shell
\* and the result is the sum over all elements of all shells.
C23_EveryShellRead ==
    (op = "gen_ham" /\ arg.k_input # NoK) =>
        \/ ret.status = "error"
        \/ /\ Len(deg_ws) >= Len(Hmat_list)
           /\ Len(Rvec_list) >= Len(Hmat_list)
           /\ ret.ham = BlochSum(arg.k_input[1])

(***************************************************************************)
(* The caller's lists after construction.  __init__ copies lat and orb     *)
(* with np.array (lines 35, 46) but binds self.deg_ws, self.Rvec_list and   *)
(* self.Hmat_list to the very list objects it was passed (lines 57-59), so *)
(* the lists the caller still holds are the objects deg_ws, Rvec_list and  *)
(* Hmat_list: an edit the caller makes between two calls is an edit of     *)
(* them.                                                                   *)
(***************************************************************************)
MaxShellLen == 2

EditAmps == { <<1, 0>> }

Pop(l) == SubSeq(l, 1, Len(l) - 1)

\* deg_ws.pop(), Rvec_list.pop() or Hmat_list.pop() by the caller
CallerTruncates ==
    /\ Idle
    /\ \E which \in { "deg_ws", "Rvec_list", "Hmat_list" } :
        /\ deg_ws' = IF which = "deg_ws" THEN Pop(deg_ws) ELSE deg_ws
        /\ Rvec_list' = IF which = "Rvec_list" THEN Pop(Rvec_list) ELSE Rvec_list
        /\ Hmat_list' = IF which = "Hmat_list" THEN Pop(Hmat_list) ELSE Hmat_list
        /\ <<deg_ws', Rvec_list', Hmat_list'>> # <<deg_ws, Rvec_list, Hmat_list>>
    /\ UNCHANGED <<lat, orb, norb, op, arg, ret, envVars>>

\* Hmat_list[s].append([0, 0, a]) by the caller
CallerAppends ==
    /\ Idle
    /\ \E s \in 1..Len(Hmat_list), a \in EditAmps :
        /\ Len(Hmat_list[s]) < MaxShellLen
        /\ Hmat_list' = [Hmat_list EXCEPT ![s] = Append(@, <<0, 0, a>>)]
    /\ UNCHANGED <<lat, orb, norb, deg_ws, Rvec_list, op, arg, ret, envVars>>

\* Hmat_list[s][p][2] = a by the caller
CallerModifies ==
    /\ Idle
    /\ \E s \in 1..Len(Hmat_list), a \in EditAmps :
        \E p \in 1..Len(Hmat_list[s]) :
            /\ Hmat_list[s][p][3] # a
            /\ Hmat_list' = [Hmat_list EXCEPT ![s][p][3] = a]
    /\ UNCHANGED <<lat, orb, norb, deg_ws, Rvec_list, op, arg, ret, envVars>>

InitAlias == InitChain

NextAlias ==
    CallerTruncates \/ CallerAppends \/ CallerModifies \/ GenHam \/ GenHamNoK \/ Return

SpecAlias == InitAlias /\ [][NextAlias]_vars

\* C21: whatever the caller has done since construction to the lists it passed
\* to the constructor, a build with a k-vector returns what the table as it was
\* at construction determines.
C21_Isolated ==
    (op = "gen_ham" /\ arg.k_input # NoK) =>
        ret = gen_ham(orb, norb, given.deg_ws, given.Rvec_list, given.Hmat_list,
                      arg.k_input)

(***************************************************************************)
(* Concurrent callers of one shared model.  A call computes on its own     *)
(* locals and reads the model; the report of k_path (lines 310-331) reads  *)
(* and writes numpy's print options, which all callers share, in three     *)
(* separate statements.                                                    *)
(***************************************************************************)
\* the calls a concurrent caller makes
ConcCalls ==
    { [op |-> "gen_ham", k_input |-> k] : k \in { NoK, <<<<0, 0, 0>>>>, <<<<1, 0, 0>>>> } }
      \cup { [op |-> "sol_ham", ham |-> [i \in 0..0 |-> [j \in 0..0 |-> z]],
              eig_vectors |-> FALSE] : z \in { <<1, 0>>, <<0, 1>> } }
      \cup { [op |-> "k_uniform_mesh", mesh_size |-> m] : m \in { <<1, 1, 2>>, <<0, 1, 1>> } }
      \cup { [op |-> "k_path", kpts |-> <<<<0, 0, 0>>, <<1, 0, 0>>>>, nk |-> nk,
              report |-> report] : nk \in 1..2, report \in BOOLEAN }

\* what the call returns, computed from the model and the call's arguments
CallResult(call) ==
    CASE call.op = "gen_ham" ->
           gen_ham(orb, norb, deg_ws, Rvec_list, Hmat_list, call.k_input)
      [] call.op = "sol_ham" ->
           sol_ham(call.ham, call.eig_vectors, Eigh(call.ham, [m \in 0..0 |-> 0]),
                   [m \in 0..0 |-> 0])
      [] call.op = "k_uniform_mesh" -> k_uniform_mesh(call.mesh_size)
      [] call.op = "k_path" -> k_path(lat, call.kpts, call.nk, call.report)

\* the call enters the report of k_path: report==True and no exception so far
EntersReport(call, result) ==
    call.op = "k_path" /\ call.report /\ result.status = "ok"

\* caller c makes a call and runs it up to its return or up to line 311
ThrCall ==
    \E c \in Callers : \E call \in ConcCalls :
        /\ thr[c].pc = "ready"
        /\ thr' = [thr EXCEPT ![c] =
                     [pc |-> IF EntersReport(call, CallResult(call)) THEN "get" ELSE "done",
                      call |-> call, original |-> 0, ret |-> CallResult(call)]]
        /\ UNCHANGED <<modelVars, op, arg, ret, np_precision, given>>

\* original=np.get_printoptions(), line 311
ThrReportGet ==
    \E c \in Callers :
        /\ thr[c].pc = "get"
        /\ thr' = [thr EXCEPT ![c].pc = "set", ![c].original = np_precision]
        /\ UNCHANGED <<modelVars, op, arg, ret, np_precision, given>>

\* np.set_printoptions(precision=5), line 312, and the printout that follows
ThrReportSet ==
    \E c \in Callers :
        /\ thr[c].pc = "set"
        /\ np_precision' = ReportPrecision
        /\ thr' = [thr EXCEPT ![c].pc = "restore"]
        /\ UNCHANGED <<modelVars, op, arg, ret, given>>

\* np.set_printoptions(precision=original["precision"]), line 330, and the return
ThrReportRestore ==
    \E c \in Callers :
        /\ thr[c].pc = "restore"
        /\ np_precision' = thr[c].original
        /\ thr' = [thr EXCEPT ![c].pc = "done"]
        /\ UNCHANGED <<modelVars, op, arg, ret, given>>

InitConc == InitModel(IdentityLat, OneOrbital, ChainDegs, ChainRvecs, ChainHmats(<<1, 1>>))

NextConc == ThrCall \/ ThrReportGet \/ ThrReportSet \/ ThrReportRestore

SpecConc == InitConc /\ [][NextConc]_vars

AllDone == \A c \in Callers : thr[c].pc = "done"

\* C15: once all concurrent calls have finished, every caller holds the
\* result its call gives alone and numpy's print precision has the value it
\* had before the calls started.
C15_NoSharedState ==
    AllDone =>
        /\ \A c \in Callers : thr[c].ret = CallResult(thr[c].call)
        /\ np_precision = DefaultPrecision

Init ==
    \/ InitNone
    \/ InitHam
    \/ InitPath
    \/ InitEngine
    \/ InitNoK
    \/ InitWrapIndex
    \/ InitRagged
    \/ InitAlias

Next ==
    \/ Construct
    \/ GenHam
    \/ GenHamNoK
    \/ SolHam
    \/ SolHamBuilt
    \/ KUniformMesh
    \/ KPath
    \/ Return
    \/ ThrCall
    \/ ThrReportGet
    \/ ThrReportSet
    \/ ThrReportRestore
    \/ CallerTruncates
    \/ CallerAppends
    \/ CallerModifies

Spec == Init /\ [][Next]_vars

====
